---- MODULE Spec2Model ----
(***************************************************************************)
(* Model of the rule-validation pass of the telemetry inventory checker    *)
(* (src/app.py: check_fp2e_details, check_data, anomaly_columns_map).      *)
(*                                                                         *)
(* Text is modelled as a sequence of characters, one string per character. *)
(* Characters outside ASCII are named: "e_acute" is U+00E9, "E_acute" is   *)
(* U+00C9, "e_grave" is U+00E8, "e_circ" is U+00EA, "neq" is U+2260,       *)
(* "TAB" and "LF" are the tabulation and the line feed.                    *)
(*                                                                         *)
(* A table cell is a record [k, n, s]: k = "nan" is pandas' NaN, "int" an  *)
(* integer n, "float" a floating point number worth n / 10^4 (fixed point  *)
(* with four decimals), "str" the text s.                                  *)
(***************************************************************************)
EXTENDS Integers, Sequences, FiniteSets, TLC

(***************************************************************************)
(* Characters and the str methods the pass uses                            *)
(***************************************************************************)
DigitSeq == <<"0","1","2","3","4","5","6","7","8","9">>

Digits == {DigitSeq[i] : i \in 1..10}

UpperSeq ==
    <<"A","B","C","D","E","F","G","H","I","J","K","L","M",
      "N","O","P","Q","R","S","T","U","V","W","X","Y","Z","E_acute">>

LowerSeq ==
    <<"a","b","c","d","e","f","g","h","i","j","k","l","m",
      "n","o","p","q","r","s","t","u","v","w","x","y","z","e_acute">>

\* [A-Z] of the regular expression: the 26 ASCII capitals only
AZ == {UpperSeq[i] : i \in 1..26}

Whitespace == {" ", "TAB", "LF"}

\* str.upper() on one character
UpperChar(c) ==
    IF \E i \in 1..Len(LowerSeq) : LowerSeq[i] = c
    THEN UpperSeq[CHOOSE i \in 1..Len(LowerSeq) : LowerSeq[i] = c]
    ELSE c

\* str.lower() on one character
LowerChar(c) ==
    IF \E i \in 1..Len(UpperSeq) : UpperSeq[i] = c
    THEN LowerSeq[CHOOSE i \in 1..Len(UpperSeq) : UpperSeq[i] = c]
    ELSE c

\* str.upper()
Upper(s) == [i \in 1..Len(s) |-> UpperChar(s[i])]

\* str.lower()
Lower(s) == [i \in 1..Len(s) |-> LowerChar(s[i])]

\* str.lstrip(chars)
RECURSIVE LStripChars(_, _)
LStripChars(s, cs) ==
    IF s # <<>> /\ s[1] \in cs THEN LStripChars(Tail(s), cs) ELSE s

\* str.rstrip(chars)
RECURSIVE RStripChars(_, _)
RStripChars(s, cs) ==
    IF s # <<>> /\ s[Len(s)] \in cs
    THEN RStripChars(SubSeq(s, 1, Len(s) - 1), cs)
    ELSE s

\* str.strip()
Strip(s) == RStripChars(LStripChars(s, Whitespace), Whitespace)

\* str.isdigit(): at least one character and all of them digits
IsDigitStr(s) == s # <<>> /\ \A i \in 1..Len(s) : s[i] \in Digits

\* str.startswith(p)
StartsWith(s, p) == Len(s) >= Len(p) /\ SubSeq(s, 1, Len(p)) = p

\* sub in s
Contains(s, sub) ==
    \E i \in 1..(Len(s) - Len(sub) + 1) : SubSeq(s, i, i + Len(sub) - 1) = sub

\* str.slice(-2)
SliceLast2(s) == IF Len(s) <= 2 THEN s ELSE SubSeq(s, Len(s) - 1, Len(s))

\* str.zfill(2): zeros go after a leading sign
ZFill2(s) ==
    IF Len(s) >= 2 THEN s
    ELSE IF s = <<>> THEN <<"0","0">>
    ELSE IF s[1] \in {"+", "-"} THEN <<s[1], "0">>
    ELSE <<"0">> \o s

\* s.find(sub) + 1: the first position where sub occurs in s, 0 if none
Find(s, sub) ==
    LET occ == {i \in 1..(Len(s) - Len(sub) + 1) :
                    SubSeq(s, i, i + Len(sub) - 1) = sub}
    IN  IF occ = {} THEN 0 ELSE CHOOSE i \in occ : \A j \in occ : i <= j

\* str.split(sep), sep not empty: cut at each occurrence, left to right
RECURSIVE Split(_, _)
Split(s, sep) ==
    LET p == Find(s, sep)
    IN  IF p = 0 THEN <<s>>
        ELSE <<SubSeq(s, 1, p - 1)>> \o Split(SubSeq(s, p + Len(sep), Len(s)), sep)

\* sep.join(parts)
RECURSIVE Join(_, _)
Join(parts, sep) ==
    IF parts = <<>> THEN <<>>
    ELSE IF Len(parts) = 1 THEN parts[1]
    ELSE parts[1] \o sep \o Join(Tail(parts), sep)

\* re.match(r'^[A-Z]\d{2}[A-Z]{2}\d{6}$', s): "$" also matches before a
\* final line feed
fp2e_regex(s) ==
    /\ Len(s) \in {11, 12}
    /\ Len(s) = 12 => s[12] = "LF"
    /\ s[1] \in AZ
    /\ s[2] \in Digits /\ s[3] \in Digits
    /\ s[4] \in AZ /\ s[5] \in AZ
    /\ \A i \in 6..11 : s[i] \in Digits

(***************************************************************************)
(* Table cells, numbers and their conversions                              *)
(***************************************************************************)
NaN == [k |-> "nan", n |-> 0, s |-> <<>>]

IntCell(i) == [k |-> "int", n |-> i, s |-> <<>>]

\* the floating point number v / 10^4
FloatCell(v) == [k |-> "float", n |-> v, s |-> <<>>]

StrCell(t) == [k |-> "str", n |-> 0, s |-> t]

\* pd.isna / Series.isnull on one cell
IsNull(c) == c.k = "nan"

\* str(int) for a natural number
RECURSIVE NatStr(_)
NatStr(i) ==
    IF i < 10 THEN <<DigitSeq[i + 1]>>
    ELSE Append(NatStr(i \div 10), DigitSeq[(i % 10) + 1])

\* str(int)
IntStr(i) == IF i < 0 THEN <<"-">> \o NatStr(0 - i) ELSE NatStr(i)

\* the four decimals of a fraction, as str(float) prints them: trailing
\* zeros dropped, one digit kept
FracStr(f) ==
    LET d4 == <<DigitSeq[(f \div 1000) + 1], DigitSeq[((f \div 100) % 10) + 1],
                DigitSeq[((f \div 10) % 10) + 1], DigitSeq[(f % 10) + 1]>>
        t  == RStripChars(d4, {"0"})
    IN  IF t = <<>> THEN <<"0">> ELSE t

\* str(float)
FloatStr(v) ==
    LET a == IF v < 0 THEN 0 - v ELSE v
    IN  (IF v < 0 THEN <<"-">> ELSE <<>>)
            \o NatStr(a \div 10000) \o <<".">> \o FracStr(a % 10000)

\* Series.astype(str) on one cell
AsTypeStr(c) ==
    CASE c.k = "nan"   -> <<"n","a","n">>
      [] c.k = "int"   -> IntStr(c.n)
      [] c.k = "float" -> FloatStr(c.n)
      [] OTHER         -> c.s

\* Series.replace('nan', '', regex=False) on one value: whole-value match
ReplaceNan(s) == IF s = <<"n","a","n">> THEN <<>> ELSE s

\* Series.isin(['', 'nan']) on one value
IsBlank(s) == s \in {<<>>, <<"n","a","n">>}

DigitVal(c) == CHOOSE d \in 0..9 : DigitSeq[d + 1] = c

\* value of a run of digits, 0 for the empty run
RECURSIVE NatVal(_)
NatVal(s) ==
    IF s = <<>> THEN 0
    ELSE 10 * NatVal(SubSeq(s, 1, Len(s) - 1)) + DigitVal(s[Len(s)])

AllDigits(s) == \A i \in 1..Len(s) : s[i] \in Digits

\* the first four decimals of a fractional part
Frac4(s) == NatVal(SubSeq(s \o <<"0","0","0","0">>, 1, 4))

\* float(text): blanks around, a sign, digits with at most one point and at
\* least one digit; NaN stands for "does not parse"
ParseFloat(t) ==
    LET u    == Strip(t)
        neg  == u # <<>> /\ u[1] = "-"
        w    == IF u # <<>> /\ u[1] \in {"+", "-"} THEN Tail(u) ELSE u
        dots == {i \in 1..Len(w) : w[i] = "."}
        p    == CHOOSE i \in dots : TRUE
        ip   == SubSeq(w, 1, p - 1)
        fp   == SubSeq(w, p + 1, Len(w))
        sg(v) == IF neg THEN 0 - v ELSE v
    IN  IF dots = {}
        THEN IF IsDigitStr(w) THEN FloatCell(sg(NatVal(w) * 10000)) ELSE NaN
        ELSE IF Cardinality(dots) = 1 /\ AllDigits(ip) /\ AllDigits(fp)
                /\ Len(ip) + Len(fp) > 0
             THEN FloatCell(sg(NatVal(ip) * 10000 + Frac4(fp)))
             ELSE NaN

\* pd.to_numeric(errors='coerce') on one cell: a number stays, text is
\* parsed, anything else becomes NaN
to_numeric(c) ==
    CASE c.k = "nan"   -> NaN
      [] c.k = "int"   -> FloatCell(c.n * 10000)
      [] c.k = "float" -> c
      [] OTHER         -> ParseFloat(c.s)

\* Series.between(lo, hi) on one numeric cell, bounds in whole units; NaN
\* is in no interval
Between(c, lo, hi) == ~IsNull(c) /\ lo * 10000 <= c.n /\ c.n <= hi * 10000

\* x.replace('.', '', 1)
RemoveFirstDot(s) ==
    IF \E i \in 1..Len(s) : s[i] = "."
    THEN LET p == CHOOSE i \in 1..Len(s) :
                     s[i] = "." /\ \A j \in 1..(i - 1) : s[j] # "."
         IN  SubSeq(s, 1, p - 1) \o SubSeq(s, p + 1, Len(s))
    ELSE s

(***************************************************************************)
(* Normalisation of 'Année de fabrication' (check_data, lines 94-98)       *)
(***************************************************************************)
\* lambda x: str(int(float(x))) if x.replace('.', '', 1).isdigit()
\*                                 and x != '' else x
YearInt(x) ==
    IF IsDigitStr(RemoveFirstDot(x)) /\ x # <<>>
    THEN IntStr(ParseFloat(x).n \div 10000)
    ELSE x

NormalizeYear(c) == ZFill2(SliceLast2(YearInt(ReplaceNan(AsTypeStr(c)))))

(***************************************************************************)
(* Columns                                                                 *)
(***************************************************************************)
\* required_columns (line 101), in the order of the list; the accents of
\* the column names are dropped
required_columns ==
    <<"Protocole Radio", "Marque", "Numero de compteur", "Numero de tete",
      "Latitude", "Longitude", "Annee de fabrication", "Diametre", "Traite",
      "Mode de releve">>

RequiredSet == {required_columns[i] : i \in 1..Len(required_columns)}

(***************************************************************************)
(* The anomaly labels, as the pass writes them                             *)
(***************************************************************************)
\* 'Protocole Radio manquant'
L_ProtocoleManquant ==
    <<"P", "r", "o", "t", "o", "c", "o", "l", "e", " ", "R", "a", "d",
    "i", "o", " ", "m", "a", "n", "q", "u", "a", "n", "t">>

\* 'Marque manquante'
L_MarqueManquante ==
    <<"M", "a", "r", "q", "u", "e", " ", "m", "a", "n", "q", "u", "a",
    "n", "t", "e">>

\* 'Numero de compteur manquant'
L_CompteurManquant ==
    <<"N", "u", "m", "e_acute", "r", "o", " ", "d", "e", " ", "c", "o",
    "m", "p", "t", "e", "u", "r", " ", "m", "a", "n", "q", "u", "a", "n",
    "t">>

\* 'Diametre manquant'
L_DiametreManquant ==
    <<"D", "i", "a", "m", "e_grave", "t", "r", "e", " ", "m", "a", "n",
    "q", "u", "a", "n", "t">>

\* 'Annee de fabrication manquante'
L_AnneeManquante ==
    <<"A", "n", "n", "e_acute", "e", " ", "d", "e", " ", "f", "a", "b",
    "r", "i", "c", "a", "t", "i", "o", "n", " ", "m", "a", "n", "q", "u",
    "a", "n", "t", "e">>

\* 'Numero de tete manquant'
L_TeteManquante ==
    <<"N", "u", "m", "e_acute", "r", "o", " ", "d", "e", " ", "t",
    "e_circ", "t", "e", " ", "m", "a", "n", "q", "u", "a", "n", "t">>

\* 'Coordonnees GPS non numeriques'
L_GPSNonNumerique ==
    <<"C", "o", "o", "r", "d", "o", "n", "n", "e_acute", "e", "s", " ",
    "G", "P", "S", " ", "n", "o", "n", " ", "n", "u", "m", "e_acute", "r",
    "i", "q", "u", "e", "s">>

\* 'Coordonnees GPS invalides'
L_GPSInvalide ==
    <<"C", "o", "o", "r", "d", "o", "n", "n", "e_acute", "e", "s", " ",
    "G", "P", "S", " ", "i", "n", "v", "a", "l", "i", "d", "e", "s">>

\* 'KAMSTRUP: Compteur != 8 caracteres'
L_KamstrupLen ==
    <<"K", "A", "M", "S", "T", "R", "U", "P", ":", " ", "C", "o", "m",
    "p", "t", "e", "u", "r", " ", "neq", " ", "8", " ", "c", "a", "r",
    "a", "c", "t", "e_grave", "r", "e", "s">>

\* 'KAMSTRUP: Compteur != Tete'
L_KamstrupTete ==
    <<"K", "A", "M", "S", "T", "R", "U", "P", ":", " ", "C", "o", "m",
    "p", "t", "e", "u", "r", " ", "neq", " ", "T", "e_circ", "t", "e">>

\* 'KAMSTRUP: Compteur ou Tete non numerique'
L_KamstrupNum ==
    <<"K", "A", "M", "S", "T", "R", "U", "P", ":", " ", "C", "o", "m",
    "p", "t", "e", "u", "r", " ", "o", "u", " ", "T", "e_circ", "t", "e",
    " ", "n", "o", "n", " ", "n", "u", "m", "e_acute", "r", "i", "q", "u",
    "e">>

\* 'KAMSTRUP: Diametre hors de la plage [15, 80]'
L_KamstrupDiam ==
    <<"K", "A", "M", "S", "T", "R", "U", "P", ":", " ", "D", "i", "a",
    "m", "e_grave", "t", "r", "e", " ", "h", "o", "r", "s", " ", "d", "e",
    " ", "l", "a", " ", "p", "l", "a", "g", "e", " ", "[", "1", "5", ",",
    " ", "8", "0", "]">>

\* 'SAPPEL: Tete != 16 caracteres'
L_SappelTete ==
    <<"S", "A", "P", "P", "E", "L", ":", " ", "T", "e_circ", "t", "e",
    " ", "neq", " ", "1", "6", " ", "c", "a", "r", "a", "c", "t",
    "e_grave", "r", "e", "s">>

\* 'SAPPEL: Incoherence Marque/Compteur (C)'
L_SappelC ==
    <<"S", "A", "P", "P", "E", "L", ":", " ", "I", "n", "c", "o", "h",
    "e_acute", "r", "e", "n", "c", "e", " ", "M", "a", "r", "q", "u", "e",
    "/", "C", "o", "m", "p", "t", "e", "u", "r", " ", "(", "C", ")">>

\* 'SAPPEL: Incoherence Marque/Compteur (H)'
L_SappelH ==
    <<"S", "A", "P", "P", "E", "L", ":", " ", "I", "n", "c", "o", "h",
    "e_acute", "r", "e", "n", "c", "e", " ", "M", "a", "r", "q", "u", "e",
    "/", "C", "o", "m", "p", "t", "e", "u", "r", " ", "(", "H", ")">>

\* 'ITRON: Tete != 8 caracteres'
L_ItronTete ==
    <<"I", "T", "R", "O", "N", ":", " ", "T", "e_circ", "t", "e", " ",
    "neq", " ", "8", " ", "c", "a", "r", "a", "c", "t", "e_grave", "r",
    "e", "s">>

\* 'Protocole != LRA pour Traite 903/863'
L_RadioLRA ==
    <<"P", "r", "o", "t", "o", "c", "o", "l", "e", " ", "neq", " ", "L",
    "R", "A", " ", "p", "o", "u", "r", " ", "T", "r", "a", "i", "t",
    "e_acute", " ", "9", "0", "3", "/", "8", "6", "3">>

\* 'Protocole != SGX pour Traite non 903/863'
L_RadioSGX ==
    <<"P", "r", "o", "t", "o", "c", "o", "l", "e", " ", "neq", " ", "S",
    "G", "X", " ", "p", "o", "u", "r", " ", "T", "r", "a", "i", "t",
    "e_acute", " ", "n", "o", "n", " ", "9", "0", "3", "/", "8", "6",
    "3">>

\* 'Format de compteur non FP2E'
L_FormatFP2E ==
    <<"F", "o", "r", "m", "a", "t", " ", "d", "e", " ", "c", "o", "m",
    "p", "t", "e", "u", "r", " ", "n", "o", "n", " ", "F", "P", "2", "E">>

\* 'Annee fabrication manquante ou invalide'
L_AnneeInvalideFP2E ==
    <<"A", "n", "n", "e_acute", "e", " ", "f", "a", "b", "r", "i", "c",
    "a", "t", "i", "o", "n", " ", "m", "a", "n", "q", "u", "a", "n", "t",
    "e", " ", "o", "u", " ", "i", "n", "v", "a", "l", "i", "d", "e">>

\* 'Annee millesime non conforme FP2E'
L_MillesimeFP2E ==
    <<"A", "n", "n", "e_acute", "e", " ", "m", "i", "l", "l", "e_acute",
    "s", "i", "m", "e", " ", "n", "o", "n", " ", "c", "o", "n", "f", "o",
    "r", "m", "e", " ", "F", "P", "2", "E">>

\* 'Diametre non conforme FP2E'
L_DiametreFP2E ==
    <<"D", "i", "a", "m", "e_grave", "t", "r", "e", " ", "n", "o", "n",
    " ", "c", "o", "n", "f", "o", "r", "m", "e", " ", "F", "P", "2", "E">>

\* 'Conforme'
L_Conforme ==
    <<"C", "o", "n", "f", "o", "r", "m", "e">>

\* 'ITRON manuel: doit commencer par "I" ou "D"'
L_ItronManuel ==
    <<"I", "T", "R", "O", "N", " ", "m", "a", "n", "u", "e", "l", ":",
    " ", "d", "o", "i", "t", " ", "c", "o", "m", "m", "e", "n", "c", "e",
    "r", " ", "p", "a", "r", " ", "\"", "I", "\"", " ", "o", "u", " ",
    "\"", "D", "\"">>

\* 'SAPPEL manuel: doit commencer par "C" ou "H"'
L_SappelManuel ==
    <<"S", "A", "P", "P", "E", "L", " ", "m", "a", "n", "u", "e", "l",
    ":", " ", "d", "o", "i", "t", " ", "c", "o", "m", "m", "e", "n", "c",
    "e", "r", " ", "p", "a", "r", " ", "\"", "C", "\"", " ", "o", "u",
    " ", "\"", "H", "\"">>

\* the separator written after each label, and the one split() uses
Sep == <<" ", "/", " ">>

(***************************************************************************)
(* check_fp2e_details (lines 41-84), on a row of the working copy.  The    *)
(* except branch is left out: after the regular expression has matched,    *)
(* compteur[4] exists and nothing in the try block can raise.              *)
(***************************************************************************)
\* diametre_lettre (lines 12-25): the letters allowed for each diameter
diametre_lettre ==
    [d \in {15, 20, 25, 30, 40, 50, 60, 65, 80, 100, 125, 150} |->
        CASE d = 15  -> {"A", "U", "V"}
          [] d = 20  -> {"B"}
          [] d = 25  -> {"C"}
          [] d = 30  -> {"D"}
          [] d = 40  -> {"E"}
          [] d = 50  -> {"F"}
          [] d = 60  -> {"G"}
          [] d = 65  -> {"G"}
          [] d = 80  -> {"H"}
          [] d = 100 -> {"I"}
          [] d = 125 -> {"J"}
          [] OTHER   -> {"K"}]

\* variant of fp2e_map: the letter G stands for the diameter 60 only
fp2e_map_G60(l) ==
    CASE l = "A" -> {15} [] l = "U" -> {15} [] l = "V" -> {15}
      [] l = "B" -> {20} [] l = "C" -> {25} [] l = "D" -> {30}
      [] l = "E" -> {40} [] l = "F" -> {50} [] l = "G" -> {60}
      [] l = "H" -> {80} [] l = "I" -> {100} [] l = "J" -> {125}
      [] l = "K" -> {150} [] OTHER -> {}

\* fp2e_map.get(lettre_diam, []), made a list (lines 70-73)
fp2e_map(l) ==
    CASE l = "A" -> {15} [] l = "U" -> {15} [] l = "V" -> {15}
      [] l = "B" -> {20} [] l = "C" -> {25} [] l = "D" -> {30}
      [] l = "E" -> {40} [] l = "F" -> {50} [] l = "G" -> {60, 65}
      [] l = "H" -> {80} [] l = "I" -> {100} [] l = "J" -> {125}
      [] l = "K" -> {150} [] OTHER -> {}

\* diametre_val not in expected_diametres: numeric equality with an entry
DiametreIn(d, expected) == \E e \in expected : d.n = e * 10000

check_fp2e_list(row) ==
    LET compteur    == Strip(row["Numero de compteur"].s)
        annee       == Strip(row["Annee de fabrication"].s)
        diametre    == row["Diametre"]
        annee_cpt   == SubSeq(compteur, 2, 3)
        lettre_diam == UpperChar(compteur[5])
    IN  IF ~fp2e_regex(compteur) THEN <<L_FormatFP2E>>
        ELSE (IF annee = <<>> \/ ~IsDigitStr(annee)
              THEN <<L_AnneeInvalideFP2E>>
              ELSE IF annee_cpt # ZFill2(annee) THEN <<L_MillesimeFP2E>>
              ELSE <<>>)
             \o
             (IF IsNull(diametre) \/ ~DiametreIn(diametre, fp2e_map(lettre_diam))
              THEN <<L_DiametreFP2E>>
              ELSE <<>>)

check_fp2e_details(row) ==
    LET anomalies == check_fp2e_list(row)
    IN  IF anomalies = <<>> THEN L_Conforme ELSE Join(anomalies, Sep)

(***************************************************************************)
(* check_data, row by row: the working copy (lines 92-131)                 *)
(***************************************************************************)
\* astype(str).replace('nan', '', regex=False) on one cell
AsText(c) == StrCell(ReplaceNan(AsTypeStr(c)))

\* the row of df_with_anomalies made from the input row r
\* (lines 94-98, 111-120, 131)
WorkingRow(r) ==
    [c \in RequiredSet |->
        CASE c = "Annee de fabrication"        -> StrCell(NormalizeYear(r[c]))
          [] c \in {"Latitude", "Longitude"}   -> to_numeric(r[c])
          [] c = "Diametre"                    -> to_numeric(r[c])
          [] OTHER                             -> AsText(r[c])]

Marque(w)    == w["Marque"].s
Compteur(w)  == w["Numero de compteur"].s
Tete(w)      == w["Numero de tete"].s
Protocole(w) == w["Protocole Radio"].s
Traite(w)    == w["Traite"].s
Mode(w)      == w["Mode de releve"].s

\* lines 123-128
is_kamstrup(w) == Upper(Marque(w)) = <<"K","A","M","S","T","R","U","P">>

is_sappel(w) ==
    Upper(Marque(w)) \in {<<"S","A","P","P","E","L"," ","(","C",")">>,
                          <<"S","A","P","P","E","L"," ","(","H",")">>,
                          <<"S","A","P","P","E","L","(","C",")">>}

is_itron(w) == Upper(Marque(w)) = <<"I","T","R","O","N">>

is_kaifa(w) == Upper(Marque(w)) = <<"K","A","I","F","A">>

is_mode_manuelle(w) == Upper(Mode(w)) = <<"M","A","N","U","E","L","L","E">>

is_mode_telerel(w) ==
    Upper(Mode(w)) = <<"T","E_acute","L","E","R","E","L","E","V","E">>

\* line 130
annee_fabrication_num(w) == to_numeric(w["Annee de fabrication"])

(***************************************************************************)
(* check_data: the conditions of the rules (lines 137-239)                 *)
(***************************************************************************)
\* variant of condition_protocole_manquant: manual mode is not exempted
condition_protocole_manquant_NoManual(w) == IsBlank(Protocole(w))

\* line 137
condition_protocole_manquant(w) == IsBlank(Protocole(w)) /\ ~is_mode_manuelle(w)

\* line 140
condition_marque_manquante(w) == IsBlank(Marque(w))

\* line 141
condition_compteur_manquant(w) == IsBlank(Compteur(w))

\* line 142
condition_diametre_manquant(w) == IsNull(w["Diametre"])

\* line 143
condition_annee_manquante(w) == IsNull(annee_fabrication_num(w))

\* variant of condition_tete_manquante: no exemption for KAIFA
condition_tete_manquante_NoKaifa(w) ==
    /\ IsBlank(Tete(w))
    /\ ~is_kamstrup(w)
    /\ ~is_mode_manuelle(w)

\* lines 151-154
condition_tete_manquante(w) ==
    /\ IsBlank(Tete(w))
    /\ ~is_kamstrup(w)
    /\ ~is_mode_manuelle(w)
    /\ ~(is_kaifa(w) /\ is_mode_telerel(w))

\* line 157
coord_non_numeric(w) == IsNull(w["Latitude"]) \/ IsNull(w["Longitude"])

\* variant of coord_invalid: zero is not rejected
coord_invalid_NoZero(w) ==
    \/ ~Between(w["Latitude"], -90, 90)
    \/ ~Between(w["Longitude"], -180, 180)

\* lines 158-159: a comparison with NaN is false, and so is between()
coord_invalid(w) ==
    \/ (~IsNull(w["Latitude"]) /\ w["Latitude"].n = 0)
    \/ ~Between(w["Latitude"], -90, 90)
    \/ (~IsNull(w["Longitude"]) /\ w["Longitude"].n = 0)
    \/ ~Between(w["Longitude"], -180, 180)

\* line 167
kamstrup_valid(w) == is_kamstrup(w) /\ ~IsBlank(Tete(w))

\* line 168
condition_kamstrup_len(w) == is_kamstrup(w) /\ Len(Compteur(w)) # 8

\* line 169
condition_kamstrup_tete(w) == kamstrup_valid(w) /\ Compteur(w) # Tete(w)

\* line 170
condition_kamstrup_num(w) ==
    kamstrup_valid(w) /\ (~IsDigitStr(Compteur(w)) \/ ~IsDigitStr(Tete(w)))

\* variant of diametre_kamstrup_anomalie: the bounds 15 and 80 are excluded
diametre_kamstrup_anomalie_Strict(w) ==
    is_kamstrup(w) /\ ~Between(w["Diametre"], 16, 79)

\* line 171
diametre_kamstrup_anomalie(w) == is_kamstrup(w) /\ ~Between(w["Diametre"], 15, 80)

\* line 175
sappel_valid(w) == is_sappel(w) /\ ~IsBlank(Tete(w))

\* line 176
condition_sappel_tete(w) == sappel_valid(w) /\ Len(Tete(w)) # 16

\* line 179
condition_sappel_c(w) ==
    /\ is_sappel(w)
    /\ StartsWith(Compteur(w), <<"C">>)
    /\ Upper(Marque(w)) # <<"S","A","P","P","E","L"," ","(","C",")">>

\* line 181
condition_sappel_h(w) ==
    /\ is_sappel(w)
    /\ StartsWith(Compteur(w), <<"H">>)
    /\ Upper(Marque(w)) # <<"S","A","P","P","E","L"," ","(","H",")">>

\* line 184
itron_valid(w) == is_itron(w) /\ ~IsBlank(Tete(w))

\* line 185
condition_itron_tete(w) == itron_valid(w) /\ Len(Tete(w)) # 8

\* line 191
is_protocole_radio_filled(w) == ~IsBlank(Protocole(w))

\* line 194
traite_lra_condition(w) ==
    StartsWith(Traite(w), <<"9","0","3">>) \/ StartsWith(Traite(w), <<"8","6","3">>)

\* line 195
condition_radio_lra(w) ==
    /\ traite_lra_condition(w)
    /\ Upper(Protocole(w)) # <<"L","R","A">>
    /\ ~is_mode_manuelle(w)
    /\ is_protocole_radio_filled(w)

\* variant of condition_radio_sgx: the network code is not looked at
condition_radio_sgx_AnyTraite(w) ==
    /\ Upper(Protocole(w)) # <<"S","G","X">>
    /\ ~is_mode_manuelle(w)
    /\ is_protocole_radio_filled(w)

\* line 198
condition_radio_sgx(w) ==
    /\ ~traite_lra_condition(w)
    /\ Upper(Protocole(w)) # <<"S","G","X">>
    /\ ~is_mode_manuelle(w)
    /\ is_protocole_radio_filled(w)

\* lines 208-211
fp2e_check_condition(w) ==
    \/ ((is_sappel(w) \/ is_itron(w)) /\ ~is_mode_manuelle(w))
    \/ (is_mode_manuelle(w) /\ fp2e_regex(Compteur(w)))

\* line 231
is_fp2e_compliant(w) == fp2e_regex(Compteur(w))

\* lines 234-235
condition_itron_manuel(w) ==
    /\ is_mode_manuelle(w) /\ is_itron(w) /\ is_fp2e_compliant(w)
    /\ ~(\/ StartsWith(Lower(Compteur(w)), <<"i">>)
         \/ StartsWith(Lower(Compteur(w)), <<"d">>))

\* lines 238-239
condition_sappel_manuel(w) ==
    /\ is_mode_manuelle(w) /\ is_sappel(w) /\ is_fp2e_compliant(w)
    /\ ~(\/ StartsWith(Lower(Compteur(w)), <<"c">>)
         \/ StartsWith(Lower(Compteur(w)), <<"h">>))

(***************************************************************************)
(* check_data: the 'Anomalie' text of one row                              *)
(***************************************************************************)
\* one rule: .loc[cond, 'Anomalie'] += label + ' / ' raises the label on the
\* rows where cond holds
Rule(cond, label) == IF cond THEN <<label>> ELSE <<>>

\* lines 213-224: the result of check_fp2e_details is searched for each of
\* the four labels
fp2e_updates(w) ==
    IF fp2e_check_condition(w)
    THEN LET result == check_fp2e_details(w)
         IN  Rule(Contains(result, L_FormatFP2E), L_FormatFP2E)
             \o Rule(Contains(result, L_AnneeInvalideFP2E), L_AnneeInvalideFP2E)
             \o Rule(Contains(result, L_MillesimeFP2E), L_MillesimeFP2E)
             \o Rule(Contains(result, L_DiametreFP2E), L_DiametreFP2E)
    ELSE <<>>

\* the labels raised on one row by lines 137-239, in the order of the code
Raised(w) ==
    Rule(condition_protocole_manquant(w), L_ProtocoleManquant)
    \o Rule(condition_marque_manquante(w), L_MarqueManquante)
    \o Rule(condition_compteur_manquant(w), L_CompteurManquant)
    \o Rule(condition_diametre_manquant(w), L_DiametreManquant)
    \o Rule(condition_annee_manquante(w), L_AnneeManquante)
    \o Rule(condition_tete_manquante(w), L_TeteManquante)
    \o Rule(coord_non_numeric(w), L_GPSNonNumerique)
    \o Rule(coord_invalid(w), L_GPSInvalide)
    \o Rule(condition_kamstrup_len(w), L_KamstrupLen)
    \o Rule(condition_kamstrup_tete(w), L_KamstrupTete)
    \o Rule(condition_kamstrup_num(w), L_KamstrupNum)
    \o Rule(diametre_kamstrup_anomalie(w), L_KamstrupDiam)
    \o Rule(condition_sappel_tete(w), L_SappelTete)
    \o Rule(condition_sappel_c(w), L_SappelC)
    \o Rule(condition_sappel_h(w), L_SappelH)
    \o Rule(condition_itron_tete(w), L_ItronTete)
    \o Rule(condition_radio_lra(w), L_RadioLRA)
    \o Rule(condition_radio_sgx(w), L_RadioSGX)
    \o fp2e_updates(w)
    \o Rule(condition_itron_manuel(w), L_ItronManuel)
    \o Rule(condition_sappel_manuel(w), L_SappelManuel)

\* the 'Anomalie' text before the cleaning: '' (line 107), then each raised
\* label followed by ' / '
RECURSIVE AnomalieRaw(_)
AnomalieRaw(labels) ==
    IF labels = <<>> THEN <<>>
    ELSE labels[1] \o Sep \o AnomalieRaw(Tail(labels))

\* variant of CleanAnomalie: the final ' /' is not removed
CleanAnomalie_NoRStrip(a) == Strip(a)

\* line 242: .str.strip().str.rstrip(' /')
CleanAnomalie(a) == RStripChars(Strip(a), {" ", "/"})

Anomalie(w) == CleanAnomalie(AnomalieRaw(Raised(w)))

(***************************************************************************)
(* anomaly_columns_map (lines 308-333)                                     *)
(***************************************************************************)
\* the keys of the mapping, in the order of the source
anomaly_columns_keys ==
    <<L_ProtocoleManquant, L_MarqueManquante, L_CompteurManquant,
      L_TeteManquante, L_GPSNonNumerique, L_GPSInvalide, L_DiametreManquant,
      L_AnneeManquante, L_KamstrupLen, L_KamstrupTete, L_KamstrupNum,
      L_KamstrupDiam, L_SappelTete, L_SappelC, L_SappelH, L_ItronTete,
      L_ItronManuel, L_SappelManuel, L_RadioLRA, L_RadioSGX, L_FormatFP2E,
      L_MillesimeFP2E, L_DiametreFP2E>>

\* the columns each key is mapped to, in the same order
anomaly_columns_values ==
    <<{"Protocole Radio"}, {"Marque"}, {"Numero de compteur"},
      {"Numero de tete"}, {"Latitude", "Longitude"}, {"Latitude", "Longitude"},
      {"Diametre"}, {"Annee de fabrication"}, {"Numero de compteur"},
      {"Numero de compteur", "Numero de tete"},
      {"Numero de compteur", "Numero de tete"}, {"Diametre"},
      {"Numero de tete"}, {"Numero de compteur"},
      {"Marque", "Numero de compteur"}, {"Numero de tete"},
      {"Numero de compteur"}, {"Numero de compteur"},
      {"Protocole Radio", "Traite"}, {"Protocole Radio", "Traite"},
      {"Numero de compteur"}, {"Numero de compteur", "Annee de fabrication"},
      {"Numero de compteur", "Diametre"}>>

anomaly_columns_map ==
    [k \in {anomaly_columns_keys[i] : i \in 1..Len(anomaly_columns_keys)} |->
        anomaly_columns_values[CHOOSE i \in 1..Len(anomaly_columns_keys) :
                                  anomaly_columns_keys[i] = k]]

(***************************************************************************)
(* check_data on a whole table (lines 87-251)                              *)
(***************************************************************************)
\* the columns of the rows check_data returns
OutputColumns ==
    RequiredSet \cup {"Anomalie", "Anomalie Detaillee FP2E", "Index original"}

\* the row of anomalies_df made from the row of index i (from 0) of the
\* input: the working copy, its two added columns (lines 107-108) and the
\* former index (lines 245-246)
OutputRow(r, i) ==
    LET w == WorkingRow(r)
    IN  [c \in OutputColumns |->
            CASE c = "Anomalie"                -> StrCell(Anomalie(w))
              [] c = "Anomalie Detaillee FP2E" -> StrCell(<<>>)
              [] c = "Index original"          -> IntCell(i)
              [] OTHER                         -> w[c]]

\* variant of FilterAnomalies: the last row of the table is not looked at
RECURSIVE FilterAnomalies_SkipLast(_, _)
FilterAnomalies_SkipLast(t, i) ==
    IF i >= Len(t) THEN <<>>
    ELSE LET o == OutputRow(t[i], i - 1)
         IN  (IF o["Anomalie"].s # <<>> THEN <<o>> ELSE <<>>)
                 \o FilterAnomalies_SkipLast(t, i + 1)

\* line 244: the rows whose 'Anomalie' is not ''
RECURSIVE FilterAnomalies(_, _)
FilterAnomalies(t, i) ==
    IF i > Len(t) THEN <<>>
    ELSE LET o == OutputRow(t[i], i - 1)
         IN  (IF o["Anomalie"].s # <<>> THEN <<o>> ELSE <<>>)
                 \o FilterAnomalies(t, i + 1)

\* .str.split(' / ').explode(): the pieces of every row, in one list
RECURSIVE Explode(_)
Explode(out) ==
    IF out = <<>> THEN <<>>
    ELSE Split(out[1]["Anomalie"].s, Sep) \o Explode(Tail(out))

\* .value_counts(): every value that occurs, with its number of occurrences
value_counts(list) ==
    [v \in {list[i] : i \in 1..Len(list)} |->
        Cardinality({i \in 1..Len(list) : list[i] = v})]

\* the names of the required columns that are absent, in the order of
\* required_columns (line 103)
Missing(cols) ==
    SelectSeq(required_columns, LAMBDA c : c \notin cols)

(***************************************************************************)
(* State                                                                   *)
(***************************************************************************)
VARIABLES
    columns,          \* the column names of the uploaded table
    df,               \* the uploaded table: a sequence of rows, column -> cell
    status,           \* "idle", "returned", "KeyError" or "stopped"
    st_error,         \* the columns named by st.error, <<>> if none was shown
    anomalies_df,     \* first value returned by check_data
    anomaly_counter   \* second value returned by check_data

vars == <<columns, df, status, st_error, anomalies_df, anomaly_counter>>

(***************************************************************************)
(* Inputs                                                                  *)
(***************************************************************************)
\* largest number of rows of an uploaded table
MaxRows == 2

\* a conforming KAMSTRUP row
BaseRow ==
    [c \in RequiredSet |->
        CASE c = "Protocole Radio"      -> StrCell(<<"S","G","X">>)
          [] c = "Marque"               -> StrCell(<<"K","A","M","S","T","R","U","P">>)
          [] c = "Numero de compteur"   -> StrCell(<<"1","2","3","4","5","6","7","8">>)
          [] c = "Numero de tete"       -> StrCell(<<"1","2","3","4","5","6","7","8">>)
          [] c = "Latitude"             -> FloatCell(455000)
          [] c = "Longitude"            -> FloatCell(23500)
          [] c = "Annee de fabrication" -> IntCell(2008)
          [] c = "Diametre"             -> IntCell(15)
          [] c = "Traite"               -> StrCell(<<"1","2","3">>)
          [] OTHER                      -> StrCell(<<"T","E_acute","L","E","R","E","L","E","V","E">>)]

ProtocoleVals ==
    {NaN,
     StrCell(<<"L","R","A">>),
     StrCell(<<"S","G","X">>),
     StrCell(<<"l","r","a">>),
     StrCell(<<" ">>)}

MarqueVals ==
    {NaN,
     StrCell(<<"K","A","M","S","T","R","U","P">>),
     StrCell(<<"k","a","m","s","t","r","u","p">>),
     StrCell(<<"S","A","P","P","E","L"," ","(","C",")">>),
     StrCell(<<"S","A","P","P","E","L","(","C",")">>),
     StrCell(<<"S","A","P","P","E","L"," ","(","H",")">>),
     StrCell(<<"I","T","R","O","N">>),
     StrCell(<<"K","A","I","F","A">>),
     StrCell(<<"D","I","E","H","L">>)}

ModeVals ==
    {NaN,
     StrCell(<<"M","A","N","U","E","L","L","E">>),
     StrCell(<<"M","a","n","u","e","l","l","e">>),
     StrCell(<<"T","E_acute","L","E","R","E","L","E","V","E">>),
     StrCell(<<" ","M","A","N","U","E","L","L","E">>)}

TraiteVals ==
    {NaN,
     StrCell(<<"9","0","3","A">>),
     StrCell(<<"8","6","3">>),
     StrCell(<<"1","2","3">>)}

TeteVals ==
    {NaN,
     StrCell(<<>>),
     StrCell(<<"1","2","3","4","5","6","7","8">>)}

\* latitudes: 0, 90, 90.0001, -90, -90.0001, 45.5 and texts
LatVals ==
    {NaN, FloatCell(0), IntCell(0), FloatCell(900000), FloatCell(900001),
     FloatCell(-900000), FloatCell(-900001), FloatCell(455000),
     StrCell(<<"a","b","c">>), StrCell(<<"4","5",".","5">>)}

\* longitudes: 0, 180, 180.0001, -180, -180.0001, 2.35 and a text
LonVals ==
    {NaN, FloatCell(0), FloatCell(1800000), FloatCell(1800001),
     FloatCell(-1800000), FloatCell(-1800001), FloatCell(23500),
     StrCell(<<"x">>)}

KMarqueVals ==
    {StrCell(<<"K","A","M","S","T","R","U","P">>),
     StrCell(<<"k","a","m","s","t","r","u","p">>),
     StrCell(<<"I","T","R","O","N">>)}

KCompteurVals ==
    {NaN,
     StrCell(<<"1","2","3","4","5","6","7","8">>),
     StrCell(<<"1","2","3","4","5","6","7","A">>),
     StrCell(<<"1","2","3","4","5","6","7">>),
     StrCell(<<"1","2","3","4","5","6","7","8","9">>),
     IntCell(12345678)}

KTeteVals ==
    {NaN,
     StrCell(<<"1","2","3","4","5","6","7","8">>),
     StrCell(<<"1","2","3","4","5","6","7","A">>),
     StrCell(<<"8","7","6","5","4","3","2","1">>),
     StrCell(<<" ">>)}

KDiametreVals ==
    {NaN, IntCell(15), IntCell(80), IntCell(14), IntCell(81), IntCell(40),
     FloatCell(150000), FloatCell(800001), StrCell(<<"D","N","1","5">>), StrCell(<<"2","0">>)}

KModeVals ==
    {StrCell(<<"T","E_acute","L","E","R","E","L","E","V","E">>),
     StrCell(<<"M","A","N","U","E","L","L","E">>)}

FMarqueVals ==
    {NaN,
     StrCell(<<"S","A","P","P","E","L"," ","(","C",")">>),
     StrCell(<<"S","A","P","P","E","L","(","C",")">>),
     StrCell(<<"S","A","P","P","E","L"," ","(","H",")">>),
     StrCell(<<"I","T","R","O","N">>),
     StrCell(<<"K","A","M","S","T","R","U","P">>)}

FCompteurVals ==
    {NaN,
     StrCell(<<"C","0","8","A","C","1","2","3","4","5","6">>),
     StrCell(<<"H","2","3","A","B","1","2","3","4","5","6">>),
     StrCell(<<"I","0","8","A","A","1","2","3","4","5","6">>),
     StrCell(<<"D","0","8","A","U","1","2","3","4","5","6">>),
     StrCell(<<"C","0","8","a","c","1","2","3","4","5","6">>),
     StrCell(<<"1","2","3","4","5","6","7","8">>)}

AnneeVals ==
    {NaN, IntCell(2008), FloatCell(20080000), IntCell(8), IntCell(23),
     StrCell(<<"a","b">>), StrCell(<<"a","1","2">>), StrCell(<<>>), StrCell(<<"0","8">>)}

FDiametreVals ==
    {NaN, IntCell(15), IntCell(20), IntCell(25), IntCell(65)}

FModeVals ==
    {NaN,
     StrCell(<<"T","E_acute","L","E","R","E","L","E","V","E">>),
     StrCell(<<"M","A","N","U","E","L","L","E">>)}

\* rows that differ in protocol, manufacturer, reading mode, network code
\* and head serial
GeneralRows ==
    {[BaseRow EXCEPT !["Protocole Radio"] = p, !["Marque"] = m,
                     !["Mode de releve"] = md, !["Traite"] = t,
                     !["Numero de tete"] = h] :
        p \in ProtocoleVals, m \in MarqueVals, md \in ModeVals,
        t \in TraiteVals, h \in TeteVals}

\* rows that differ in their coordinates
CoordRows ==
    {[BaseRow EXCEPT !["Latitude"] = la, !["Longitude"] = lo] :
        la \in LatVals, lo \in LonVals}

\* rows that differ in manufacturer, serials, diameter and reading mode
KamstrupRows ==
    {[BaseRow EXCEPT !["Marque"] = m, !["Numero de compteur"] = k,
                     !["Numero de tete"] = h, !["Diametre"] = d,
                     !["Mode de releve"] = md] :
        m \in KMarqueVals, k \in KCompteurVals, h \in KTeteVals,
        d \in KDiametreVals, md \in KModeVals}

\* rows that differ in manufacturer, meter serial, year, diameter and
\* reading mode
YearRows ==
    {[BaseRow EXCEPT !["Marque"] = m, !["Numero de compteur"] = k,
                     !["Annee de fabrication"] = y, !["Diametre"] = d,
                     !["Mode de releve"] = md] :
        m \in FMarqueVals, k \in FCompteurVals, y \in AnneeVals,
        d \in FDiametreVals, md \in FModeVals}

DMarqueVals ==
    {StrCell(<<"S","A","P","P","E","L"," ","(","C",")">>),
     StrCell(<<"I","T","R","O","N">>)}

\* serials that follow the FP2E grammar, one for each letter of the diameter
\* table and two for letters that are not in it
DCompteurVals ==
    {StrCell(<<"C","0","8","A","A","1","2","3","4","5","6">>),
     StrCell(<<"C","0","8","A","U","1","2","3","4","5","6">>),
     StrCell(<<"C","0","8","A","V","1","2","3","4","5","6">>),
     StrCell(<<"C","0","8","A","B","1","2","3","4","5","6">>),
     StrCell(<<"C","0","8","A","C","1","2","3","4","5","6">>),
     StrCell(<<"C","0","8","A","D","1","2","3","4","5","6">>),
     StrCell(<<"C","0","8","A","E","1","2","3","4","5","6">>),
     StrCell(<<"C","0","8","A","F","1","2","3","4","5","6">>),
     StrCell(<<"C","0","8","A","G","1","2","3","4","5","6">>),
     StrCell(<<"C","0","8","A","H","1","2","3","4","5","6">>),
     StrCell(<<"C","0","8","A","I","1","2","3","4","5","6">>),
     StrCell(<<"C","0","8","A","J","1","2","3","4","5","6">>),
     StrCell(<<"C","0","8","A","K","1","2","3","4","5","6">>),
     StrCell(<<"C","0","8","A","L","1","2","3","4","5","6">>),
     StrCell(<<"C","0","8","A","Y","1","2","3","4","5","6">>)}

\* the diameters of the table, 32, 15.0, 15.5, texts and a missing one
DDiametreVals ==
    {NaN, IntCell(15), IntCell(20), IntCell(25), IntCell(30), IntCell(40),
     IntCell(50), IntCell(60), IntCell(65), IntCell(80), IntCell(100),
     IntCell(125), IntCell(150), IntCell(32), FloatCell(150000),
     FloatCell(155000), StrCell(<<"D","N","1","5">>), StrCell(<<"2","0">>)}

\* rows that differ in manufacturer, diameter letter of the serial, diameter
\* and reading mode
DiametreRows ==
    {[BaseRow EXCEPT !["Marque"] = m, !["Numero de compteur"] = k,
                     !["Diametre"] = d, !["Mode de releve"] = md] :
        m \in DMarqueVals, k \in DCompteurVals, d \in DDiametreVals,
        md \in KModeVals}

\* values with blanks around them, and values made of a blank only
BProtocoleVals ==
    {StrCell(<<"S","G","X">>), StrCell(<<" ">>), StrCell(<<" ","S","G","X"," ">>)}

BMarqueVals ==
    {StrCell(<<"I","T","R","O","N">>), StrCell(<<" ">>), StrCell(<<"I","T","R","O","N"," ">>)}

BCompteurVals ==
    {StrCell(<<"I","0","8","A","A","1","2","3","4","5","6">>), StrCell(<<" ">>), StrCell(<<" ","I","0","8","A","A","1","2","3","4","5","6">>)}

BTeteVals ==
    {StrCell(<<"1","2","3","4","5","6","7","8">>), StrCell(<<" ">>), StrCell(<<"1","2","3","4","5","6","7","8"," ">>)}

\* rows that differ in the blanks of protocol, manufacturer and serials, and
\* in reading mode
BlankRows ==
    {[BaseRow EXCEPT !["Protocole Radio"] = p, !["Marque"] = m,
                     !["Numero de compteur"] = k, !["Numero de tete"] = h,
                     !["Mode de releve"] = md] :
        p \in BProtocoleVals, m \in BMarqueVals, k \in BCompteurVals,
        h \in BTeteVals, md \in KModeVals}

AllRows ==
    GeneralRows \cup CoordRows \cup KamstrupRows \cup YearRows
        \cup DiametreRows \cup BlankRows

\* the rows of the tables of several rows
SampleRows ==
    {BaseRow,
     [BaseRow EXCEPT !["Latitude"] = NaN],
     [BaseRow EXCEPT !["Latitude"] = StrCell(<<"a","b","c">>), !["Diametre"] = StrCell(<<"D","N","1","5">>)],
     [BaseRow EXCEPT !["Marque"] = StrCell(<<"S","A","P","P","E","L","(","C",")">>),
                     !["Numero de compteur"] = StrCell(<<"C","2","3","A","B","1","2","3","4","5">>)],
     [BaseRow EXCEPT !["Marque"] = StrCell(<<"S","A","P","P","E","L"," ","(","C",")">>), !["Numero de tete"] = NaN,
                     !["Numero de compteur"] = StrCell(<<"C","0","8","A","A","1","2","3","4","5","6">>)],
     [BaseRow EXCEPT !["Marque"] = StrCell(<<"S","A","P","P","E","L"," ","(","H",")">>),
                     !["Numero de compteur"] = StrCell(<<"H","0","8","A","A","1","2","3","4","5","6">>),
                     !["Annee de fabrication"] = StrCell(<<"a","b">>)],
     [BaseRow EXCEPT !["Marque"] = StrCell(<<"I","T","R","O","N">>), !["Mode de releve"] = StrCell(<<"M","A","N","U","E","L","L","E">>),
                     !["Numero de compteur"] = StrCell(<<"C","0","8","A","A","1","2","3","4","5","6">>),
                     !["Protocole Radio"] = NaN],
     [BaseRow EXCEPT !["Marque"] = StrCell(<<"K","A","I","F","A">>), !["Numero de tete"] = NaN,
                     !["Traite"] = StrCell(<<"9","0","3","A">>)],
     [BaseRow EXCEPT !["Annee de fabrication"] = NaN, !["Longitude"] = FloatCell(0)],
     [c \in RequiredSet |-> NaN]}

\* the sets of columns an uploaded table may have: all the required ones,
\* or all but one, or all but two
ColumnChoices ==
    {RequiredSet} \cup {RequiredSet \ {c} : c \in RequiredSet}
        \cup {RequiredSet \ {"Marque", "Latitude"},
              RequiredSet \ {"Annee de fabrication", "Traite"}}

(***************************************************************************)
(* The state machine                                                       *)
(***************************************************************************)
NoCounter == [v \in {} |-> 0]

\* a file has been chosen, nothing is read yet
Init ==
    /\ columns \in ColumnChoices
    /\ df = <<>>
    /\ status = "idle"
    /\ st_error = <<>>
    /\ anomalies_df = <<>>
    /\ anomaly_counter = NoCounter

\* pd.read_csv / pd.read_excel (lines 281-285), one row at a time: the row
\* has the columns of the file
ReadRow(r) ==
    /\ status = "idle"
    /\ Len(df) < MaxRows
    /\ df' = Append(df, [c \in columns |-> r[c]])
    /\ UNCHANGED <<columns, status, st_error, anomalies_df, anomaly_counter>>

\* check_data(df) (lines 87-251), called by the button of line 296.
\* Line 94 reads df['Année de fabrication'] before the required columns are
\* checked: without that column the call ends with a KeyError.  st.stop()
\* ends the run without a result.  df.copy() (line 92) keeps df as it is.
check_data ==
    /\ status = "idle"
    /\ IF "Annee de fabrication" \notin columns
       THEN /\ status' = "KeyError"
            /\ UNCHANGED <<st_error, anomalies_df, anomaly_counter>>
       ELSE IF Missing(columns) # <<>>
       THEN /\ status' = "stopped"
            /\ st_error' = Missing(columns)
            /\ UNCHANGED <<anomalies_df, anomaly_counter>>
       ELSE /\ status' = "returned"
            /\ anomalies_df' = FilterAnomalies(df, 1)
            /\ anomaly_counter' = value_counts(Explode(FilterAnomalies(df, 1)))
            /\ UNCHANGED st_error
    /\ UNCHANGED <<columns, df>>

Next ==
    \/ \E r \in SampleRows : ReadRow(r)
    \/ check_data

Spec == Init /\ [][Next]_vars

\* a table of one row, with every required column
InitRow ==
    /\ columns = RequiredSet
    /\ df \in {<<r>> : r \in AllRows}
    /\ status = "idle"
    /\ st_error = <<>>
    /\ anomalies_df = <<>>
    /\ anomaly_counter = NoCounter

NextRow == check_data

SpecRow == InitRow /\ [][NextRow]_vars

(***************************************************************************)
(* Properties                                                              *)
(***************************************************************************)
txtMANUELLE == <<"M","A","N","U","E","L","L","E">>

txtTELERELEVE == <<"T","E_acute","L","E","R","E","L","E","V","E">>

txtKAMSTRUP == <<"K","A","M","S","T","R","U","P">>

txtKAIFA == <<"K","A","I","F","A">>

\* every label the pass can write
Catalogue ==
    {L_ProtocoleManquant, L_MarqueManquante, L_CompteurManquant,
     L_DiametreManquant, L_AnneeManquante, L_TeteManquante, L_GPSNonNumerique,
     L_GPSInvalide, L_KamstrupLen, L_KamstrupTete, L_KamstrupNum,
     L_KamstrupDiam, L_SappelTete, L_SappelC, L_SappelH, L_ItronTete,
     L_RadioLRA, L_RadioSGX, L_FormatFP2E, L_AnneeInvalideFP2E,
     L_MillesimeFP2E, L_DiametreFP2E, L_ItronManuel, L_SappelManuel}

Returned == status = "returned"

\* the text of an input cell, a missing cell being the empty text
InputText(c) == ReplaceNan(AsTypeStr(c))

\* the positions in anomalies_df of the input row i (from 1)
OutputOf(i) ==
    {j \in 1..Len(anomalies_df) : anomalies_df[j]["Index original"].n = i - 1}

\* the labels the returned table shows for the input row i (from 1)
KindsOf(i) ==
    IF OutputOf(i) = {} THEN {}
    ELSE LET p == Split(anomalies_df[CHOOSE j \in OutputOf(i) : TRUE]["Anomalie"].s,
                        Sep)
         IN  {p[x] : x \in 1..Len(p)}

\* the set of the labels raised on the input row r
RaisedSet(r) ==
    LET l == Raised(WorkingRow(r)) IN {l[x] : x \in 1..Len(l)}

\* the cell holds a number or a text that reads as a number
Numeric(c) == ~IsNull(to_numeric(c))

\* its value, in 1/10^4
Val(c) == to_numeric(c).n

IsManual(r) == Upper(InputText(r["Mode de releve"])) = txtMANUELLE

IsTelerel(r) == Upper(InputText(r["Mode de releve"])) = txtTELERELEVE

IsKamstrup(r) == Upper(InputText(r["Marque"])) = txtKAMSTRUP

IsKaifa(r) == Upper(InputText(r["Marque"])) = txtKAIFA

HeadMissing(r) == InputText(r["Numero de tete"]) \in {<<>>, <<"n","a","n">>}

HasNonDigit(t) == \E x \in 1..Len(t) : t[x] \notin Digits

\* C1: once check_data has returned, an input row is in anomalies_df iff at
\* least one label was raised on it, and it is there once; no row of
\* anomalies_df comes from anywhere else.
C1_Coverage ==
    Returned =>
        /\ \A i \in 1..Len(df) :
              IF RaisedSet(df[i]) = {} THEN OutputOf(i) = {}
              ELSE Cardinality(OutputOf(i)) = 1
        /\ \A j \in 1..Len(anomalies_df) :
              anomalies_df[j]["Index original"].n \in 0..(Len(df) - 1)

\* C1: a table of two rows, one of them anomalous, has been checked
C1_Witness ==
    /\ Returned
    /\ Len(df) = 2
    /\ Len(anomalies_df) = 1
    /\ \E i \in 1..2 : RaisedSet(df[i]) = {}

\* the number of input rows on which the label k was raised
Records(k) == Cardinality({i \in 1..Len(df) : k \in RaisedSet(df[i])})

\* C2: once check_data has returned, anomaly_counter has an entry for the
\* label k iff k was raised on some input row, its count is the number of
\* input rows on which k was raised, and it has no entry that is not a label
\* of the catalogue.
C2_Counts ==
    Returned =>
        /\ DOMAIN anomaly_counter \subseteq Catalogue
        /\ \A k \in Catalogue :
              IF Records(k) = 0 THEN k \notin DOMAIN anomaly_counter
              ELSE k \in DOMAIN anomaly_counter /\ anomaly_counter[k] = Records(k)

\* C2: a label counted on two rows, next to a label counted on one
C2_Witness ==
    /\ Returned
    /\ \E k \in DOMAIN anomaly_counter : anomaly_counter[k] = 2
    /\ \E k \in DOMAIN anomaly_counter : anomaly_counter[k] = 1

\* C3: when a required column is absent, check_data ends by showing the
\* configuration error that names the absent columns, and returns nothing.
C3_ConfigError ==
    (status # "idle" /\ columns # RequiredSet) =>
        /\ status = "stopped"
        /\ {st_error[x] : x \in 1..Len(st_error)} = RequiredSet \ columns
        /\ anomalies_df = <<>>

\* the returned cell shows the value the input cell had: the same cell, the
\* same number, the text of the number, or nothing for a missing cell
SameValue(in, out) ==
    \/ in = out
    \/ IsNull(in) /\ out = StrCell(<<>>)
    \/ in.k \in {"int", "float"} /\ out.k \in {"int", "float"}
          /\ Val(in) = Val(out)
    \/ in.k \in {"int", "float"} /\ out.k = "str" /\ out.s = AsTypeStr(in)

\* C4: every row of anomalies_df has, in each required column, the value of
\* the input row it comes from.
C4_OriginalValues ==
    Returned =>
        \A j \in 1..Len(anomalies_df) : \A c \in RequiredSet :
            SameValue(df[anomalies_df[j]["Index original"].n + 1][c],
                      anomalies_df[j][c])

\* C5: every label shown in the 'Anomalie' column of anomalies_df is a key of
\* anomaly_columns_map.
C5_MapCovers ==
    Returned =>
        \A i \in 1..Len(df) : KindsOf(i) \subseteq DOMAIN anomaly_columns_map

\* C6: a row in manual reading mode shows neither 'Protocole Radio manquant'
\* nor one of the two protocol/network labels.
C6_ManualSuppression ==
    Returned =>
        \A i \in 1..Len(df) :
            IsManual(df[i]) =>
                KindsOf(i) \cap {L_ProtocoleManquant, L_RadioLRA, L_RadioSGX} = {}

\* C6: a manual KAMSTRUP row without radio protocol has been checked
C6_Witness ==
    /\ Returned
    /\ \E i \in 1..Len(df) :
          /\ IsManual(df[i])
          /\ IsNull(df[i]["Protocole Radio"])
          /\ IsKamstrup(df[i])
          /\ StartsWith(InputText(df[i]["Traite"]), <<"9","0","3">>)

\* latitude 0, longitude 0, or one of them out of its range
ZeroOrOutOfRange(la, lo) ==
    \/ Val(la) = 0 \/ Val(la) < -900000 \/ Val(la) > 900000
    \/ Val(lo) = 0 \/ Val(lo) < -1800000 \/ Val(lo) > 1800000

\* C7, as claimed: 'non numériques' iff a coordinate is missing or does not
\* parse, and 'invalides' iff both are numbers and one is 0 or out of range.
C7_Original ==
    Returned =>
        \A i \in 1..Len(df) :
            LET la == df[i]["Latitude"]
                lo == df[i]["Longitude"]
            IN  /\ L_GPSNonNumerique \in KindsOf(i)
                      <=> (~Numeric(la) \/ ~Numeric(lo))
                /\ L_GPSInvalide \in KindsOf(i)
                      <=> (Numeric(la) /\ Numeric(lo) /\ ZeroOrOutOfRange(la, lo))

\* C7, amended: 'non numériques' iff a coordinate is missing or does not
\* parse; 'invalides' iff a coordinate is missing or does not parse, or the
\* latitude is 0 or outside [-90, 90], or the longitude is 0 or outside
\* [-180, 180].
C7_Coordinates ==
    Returned =>
        \A i \in 1..Len(df) :
            LET la == df[i]["Latitude"]
                lo == df[i]["Longitude"]
            IN  /\ L_GPSNonNumerique \in KindsOf(i)
                      <=> (~Numeric(la) \/ ~Numeric(lo))
                /\ L_GPSInvalide \in KindsOf(i)
                      <=> \/ ~Numeric(la)
                          \/ Numeric(la)
                               /\ (Val(la) = 0 \/ Val(la) < -900000 \/ Val(la) > 900000)
                          \/ ~Numeric(lo)
                          \/ Numeric(lo)
                               /\ (Val(lo) = 0 \/ Val(lo) < -1800000 \/ Val(lo) > 1800000)

\* C7: a row whose latitude is a text that is no number shows both labels
C7_Witness ==
    /\ Returned
    /\ \E i \in 1..Len(df) :
          /\ df[i]["Latitude"] = StrCell(<<"a","b","c">>)
          /\ Numeric(df[i]["Longitude"])
          /\ {L_GPSNonNumerique, L_GPSInvalide} \subseteq KindsOf(i)

KamstrupKinds == {L_KamstrupLen, L_KamstrupTete, L_KamstrupNum, L_KamstrupDiam}

\* the parts of C8 that the amendment leaves as claimed
C8_Common(i) ==
    LET cpt  == InputText(df[i]["Numero de compteur"])
        tete == InputText(df[i]["Numero de tete"])
        d    == df[i]["Diametre"]
    IN  /\ (Len(cpt) = 8 /\ IsDigitStr(cpt) /\ tete = cpt /\ Numeric(d)
               /\ 150000 <= Val(d) /\ Val(d) <= 800000)
              => KindsOf(i) \cap KamstrupKinds = {}
        /\ ~HeadMissing(df[i]) => (L_KamstrupTete \in KindsOf(i) <=> cpt # tete)
        /\ L_KamstrupLen \in KindsOf(i) <=> Len(cpt) # 8

\* C8, as claimed: for a KAMSTRUP row, with a head serial 'non numérique' iff
\* a serial has a character that is no digit, and the diameter label iff the
\* diameter is a number outside [15, 80].
C8_Original ==
    Returned =>
        \A i \in 1..Len(df) :
            IsKamstrup(df[i]) =>
                LET cpt  == InputText(df[i]["Numero de compteur"])
                    tete == InputText(df[i]["Numero de tete"])
                    d    == df[i]["Diametre"]
                IN  /\ C8_Common(i)
                    /\ ~HeadMissing(df[i]) =>
                          (L_KamstrupNum \in KindsOf(i)
                              <=> (HasNonDigit(cpt) \/ HasNonDigit(tete)))
                    /\ L_KamstrupDiam \in KindsOf(i)
                          <=> (Numeric(d) /\ (Val(d) < 150000 \/ Val(d) > 800000))

\* C8, amended: for a KAMSTRUP row, with a head serial 'non numérique' iff
\* the meter serial is missing or a serial has a character that is no digit,
\* and the diameter label iff the diameter is missing, is no number, or is
\* outside [15, 80].
C8_Kamstrup ==
    Returned =>
        \A i \in 1..Len(df) :
            IsKamstrup(df[i]) =>
                LET cpt  == InputText(df[i]["Numero de compteur"])
                    tete == InputText(df[i]["Numero de tete"])
                    d    == df[i]["Diametre"]
                IN  /\ C8_Common(i)
                    /\ ~HeadMissing(df[i]) =>
                          (L_KamstrupNum \in KindsOf(i)
                              <=> (cpt = <<>> \/ HasNonDigit(cpt) \/ HasNonDigit(tete)))
                    /\ L_KamstrupDiam \in KindsOf(i)
                          <=> (~Numeric(d) \/ Val(d) < 150000 \/ Val(d) > 800000)

\* C8: a KAMSTRUP row with a head serial and no meter serial shows
\* 'non numérique', and its diameter 80 is accepted
C8_Witness ==
    /\ Returned
    /\ \E i \in 1..Len(df) :
          /\ IsKamstrup(df[i])
          /\ IsNull(df[i]["Numero de compteur"])
          /\ df[i]["Numero de tete"] = StrCell(<<"1","2","3","4","5","6","7","8">>)
          /\ df[i]["Diametre"] = IntCell(80)
          /\ L_KamstrupNum \in KindsOf(i)
          /\ L_KamstrupDiam \notin KindsOf(i)

\* the year is absent, empty, or a text that is no number
YearMissing(c) == IsNull(c) \/ (c.k = "str" /\ IsNull(ParseFloat(c.s)))

\* C9: every row whose manufacture year is missing shows
\* 'Année de fabrication manquante'.
C9_YearMissing ==
    Returned =>
        \A i \in 1..Len(df) :
            YearMissing(df[i]["Annee de fabrication"])
                => L_AnneeManquante \in KindsOf(i)

\* C10, as claimed: a row without head serial shows 'Numéro de tête manquant'
\* iff it is neither KAMSTRUP nor in manual mode.
C10_Original ==
    Returned =>
        \A i \in 1..Len(df) :
            HeadMissing(df[i]) =>
                (L_TeteManquante \in KindsOf(i)
                    <=> (~IsKamstrup(df[i]) /\ ~IsManual(df[i])))

\* C10, amended: a row without head serial shows 'Numéro de tête manquant'
\* iff it is not KAMSTRUP, not in manual mode, and not a KAIFA row in
\* TÉLERELEVE mode.
C10_HeadMissing ==
    Returned =>
        \A i \in 1..Len(df) :
            HeadMissing(df[i]) =>
                (L_TeteManquante \in KindsOf(i)
                    <=> /\ ~IsKamstrup(df[i])
                        /\ ~IsManual(df[i])
                        /\ ~(IsKaifa(df[i]) /\ IsTelerel(df[i])))

\* C10: a KAIFA row in TÉLERELEVE mode without head serial is in the result
\* and does not show the label
C10_Witness ==
    /\ Returned
    /\ \E i \in 1..Len(df) :
          /\ IsKaifa(df[i])
          /\ IsTelerel(df[i])
          /\ IsNull(df[i]["Numero de tete"])
          /\ KindsOf(i) # {}
          /\ L_TeteManquante \notin KindsOf(i)

txtSAPPEL_C == <<"S","A","P","P","E","L"," ","(","C",")">>

txtSAPPEL_C_NoSpace == <<"S","A","P","P","E","L","(","C",")">>

txtSAPPEL_H == <<"S","A","P","P","E","L"," ","(","H",")">>

txtITRON == <<"I","T","R","O","N">>

IsSappel(r) ==
    Upper(InputText(r["Marque"])) \in {txtSAPPEL_C, txtSAPPEL_C_NoSpace, txtSAPPEL_H}

IsItron(r) == Upper(InputText(r["Marque"])) = txtITRON

\* the meter serial follows the FP2E grammar
SerialIsFP2E(r) == fp2e_regex(Strip(InputText(r["Numero de compteur"])))

FP2EKinds == {L_FormatFP2E, L_AnneeInvalideFP2E, L_MillesimeFP2E, L_DiametreFP2E}

\* the row is of the SAPPEL or ITRON family and is not manual or has a
\* serial that follows the FP2E grammar
FP2EApplies(r) == (IsSappel(r) \/ IsItron(r)) /\ (~IsManual(r) \/ SerialIsFP2E(r))

\* C11: a row shows one of the four FP2E labels only if it is of the SAPPEL
\* or ITRON family and is not manual or has a serial that follows the FP2E
\* grammar; such a row whose serial does not follow the grammar shows
\* 'Format de compteur non FP2E'.
C11_FP2EFamilies ==
    Returned =>
        \A i \in 1..Len(df) :
            /\ KindsOf(i) \cap FP2EKinds # {} => FP2EApplies(df[i])
            /\ (FP2EApplies(df[i]) /\ ~SerialIsFP2E(df[i]))
                  => L_FormatFP2E \in KindsOf(i)

\* a SAPPEL or ITRON row whose serial follows the FP2E grammar: the FP2E
\* check looks at its year and its diameter
UnderFP2E(r) ==
    (IsSappel(r) \/ IsItron(r)) /\ fp2e_regex(InputText(r["Numero de compteur"]))

\* the last two digits of a year that is a number, as a text of two digits
YearTwoDigits(c) ==
    LET v == Val(c) \div 10000
    IN  <<DigitSeq[((v \div 10) % 10) + 1], DigitSeq[(v % 10) + 1]>>

\* C12: a SAPPEL or ITRON row whose serial follows the FP2E grammar shows
\* 'Année fabrication manquante ou invalide' and not 'Année millésime non
\* conforme FP2E' if its year is missing or is no number; otherwise it shows
\* the second label iff the characters 2 and 3 of the serial differ from the
\* last two digits of the year, and not the first; it never shows both.
C12_YearKinds ==
    Returned =>
        \A i \in 1..Len(df) :
            UnderFP2E(df[i]) =>
                LET y   == df[i]["Annee de fabrication"]
                    cpt == InputText(df[i]["Numero de compteur"])
                IN  /\ YearMissing(y) =>
                          /\ L_AnneeInvalideFP2E \in KindsOf(i)
                          /\ L_MillesimeFP2E \notin KindsOf(i)
                    /\ ~YearMissing(y) =>
                          /\ L_AnneeInvalideFP2E \notin KindsOf(i)
                          /\ L_MillesimeFP2E \in KindsOf(i)
                                <=> SubSeq(cpt, 2, 3) # YearTwoDigits(y)
                    /\ ~({L_AnneeInvalideFP2E, L_MillesimeFP2E} \subseteq KindsOf(i))

\* the letters diametre_lettre allows for the diameter d, none for a
\* diameter that is not in the table
AllowedLetters(d) ==
    IF \E k \in DOMAIN diametre_lettre : Val(d) = k * 10000
    THEN diametre_lettre[CHOOSE k \in DOMAIN diametre_lettre : Val(d) = k * 10000]
    ELSE {}

\* C13: a SAPPEL or ITRON row whose serial follows the FP2E grammar shows
\* 'Diamètre non conforme FP2E' iff its diameter is missing (or is no number)
\* or the fifth character of the serial is not a letter diametre_lettre
\* allows for that diameter; and fp2e_map gives the diameter d for the
\* letter l iff diametre_lettre gives l for d.
C13_DiameterLetter ==
    /\ \A l \in AZ :
          /\ fp2e_map(l) \subseteq DOMAIN diametre_lettre
          /\ \A d \in DOMAIN diametre_lettre :
                d \in fp2e_map(l) <=> l \in diametre_lettre[d]
    /\ Returned =>
          \A i \in 1..Len(df) :
              UnderFP2E(df[i]) =>
                  LET d   == df[i]["Diametre"]
                      cpt == InputText(df[i]["Numero de compteur"])
                  IN  L_DiametreFP2E \in KindsOf(i)
                          <=> (~Numeric(d) \/ cpt[5] \notin AllowedLetters(d))

\* C13: a row with the letter G and the diameter 65 has been checked and does
\* not show the label
C13_Witness ==
    /\ Returned
    /\ \E i \in 1..Len(df) :
          /\ UnderFP2E(df[i])
          /\ InputText(df[i]["Numero de compteur"])[5] = "G"
          /\ df[i]["Diametre"] = IntCell(65)
          /\ KindsOf(i) # {}
          /\ L_DiametreFP2E \notin KindsOf(i)

\* C14: whatever the manufacturer, a row shows the label of the 'C'
\* inconsistency iff its serial starts with 'C' and its manufacturer is
\* neither 'SAPPEL (C)' nor 'SAPPEL(C)', and the label of the 'H'
\* inconsistency iff its serial starts with 'H' and its manufacturer is not
\* 'SAPPEL (H)'.
C14_SerialPrefix ==
    Returned =>
        \A i \in 1..Len(df) :
            LET cpt    == InputText(df[i]["Numero de compteur"])
                marque == Upper(InputText(df[i]["Marque"]))
            IN  /\ L_SappelC \in KindsOf(i)
                      <=> /\ StartsWith(cpt, <<"C">>)
                          /\ marque \notin {txtSAPPEL_C, txtSAPPEL_C_NoSpace}
                /\ L_SappelH \in KindsOf(i)
                      <=> (StartsWith(cpt, <<"H">>) /\ marque # txtSAPPEL_H)

ProtocolAbsent(r) == InputText(r["Protocole Radio"]) \in {<<>>, <<"n","a","n">>}

\* the network code starts with 903 or 863
TraiteLRA(r) ==
    \/ StartsWith(InputText(r["Traite"]), <<"9","0","3">>)
    \/ StartsWith(InputText(r["Traite"]), <<"8","6","3">>)

\* C15: a row that is not manual and has a radio protocol shows, if its
\* network code starts with 903 or 863, 'Protocole ≠ LRA' iff its protocol
\* (in any case of letters) is not LRA, and otherwise 'Protocole ≠ SGX' iff
\* its protocol is not SGX; a row without radio protocol shows neither label,
\* and no row shows both.
C15_RadioNetwork ==
    Returned =>
        \A i \in 1..Len(df) :
            LET p == Upper(InputText(df[i]["Protocole Radio"]))
            IN  /\ (~IsManual(df[i]) /\ ~ProtocolAbsent(df[i]) /\ TraiteLRA(df[i]))
                      => /\ L_RadioLRA \in KindsOf(i) <=> p # <<"L","R","A">>
                         /\ L_RadioSGX \notin KindsOf(i)
                /\ (~IsManual(df[i]) /\ ~ProtocolAbsent(df[i]) /\ ~TraiteLRA(df[i]))
                      => /\ L_RadioSGX \in KindsOf(i) <=> p # <<"S","G","X">>
                         /\ L_RadioLRA \notin KindsOf(i)
                /\ ProtocolAbsent(df[i])
                      => KindsOf(i) \cap {L_RadioLRA, L_RadioSGX} = {}
                /\ ~({L_RadioLRA, L_RadioSGX} \subseteq KindsOf(i))

\* C15: a row of the network 903 with the protocol SGX, not manual, shows
\* 'Protocole ≠ LRA' and not 'Protocole ≠ SGX'
C15_Witness ==
    /\ Returned
    /\ \E i \in 1..Len(df) :
          /\ ~IsManual(df[i])
          /\ TraiteLRA(df[i])
          /\ InputText(df[i]["Protocole Radio"]) = <<"S","G","X">>
          /\ L_RadioLRA \in KindsOf(i)
          /\ L_RadioSGX \notin KindsOf(i)

TextColumns ==
    {"Protocole Radio", "Marque", "Numero de compteur", "Numero de tete",
     "Traite", "Mode de releve"}

\* the row r with the blanks around its texts removed
TrimRow(r) ==
    [c \in DOMAIN r |->
        IF c \in TextColumns /\ r[c].k = "str" THEN StrCell(Strip(r[c].s))
        ELSE r[c]]

\* the text of the cell is empty, 'nan', or made of blanks only
AbsentTrimmed(c) == Strip(InputText(c)) \in {<<>>, <<"n","a","n">>}

\* C16: a radio protocol, manufacturer, meter serial or head serial made of
\* blanks only counts as absent, so the row shows the matching 'manquant'
\* label under the conditions of an empty value; and a row shows the labels
\* that the same row shows once the blanks around its texts are removed.
C16_Trimmed ==
    Returned =>
        \A i \in 1..Len(df) :
            /\ (AbsentTrimmed(df[i]["Protocole Radio"]) /\ ~IsManual(df[i]))
                  => L_ProtocoleManquant \in KindsOf(i)
            /\ AbsentTrimmed(df[i]["Marque"]) => L_MarqueManquante \in KindsOf(i)
            /\ AbsentTrimmed(df[i]["Numero de compteur"])
                  => L_CompteurManquant \in KindsOf(i)
            /\ (AbsentTrimmed(df[i]["Numero de tete"]) /\ ~IsKamstrup(df[i])
                    /\ ~IsManual(df[i]) /\ ~(IsKaifa(df[i]) /\ IsTelerel(df[i])))
                  => L_TeteManquante \in KindsOf(i)
            /\ KindsOf(i) = RaisedSet(TrimRow(df[i]))

====
